---- MODULE Spec2Model ----
(***************************************************************************)
(* Markdown Blogger (src/main.ts): the settings tab's handlers, the        *)
(* validate-path / push-md commands, the file-menu push, the asynchronous  *)
(* pushFile and the Jekyll file-name conversion.                           *)
(*                                                                         *)
(* Strings are sequences of one-character strings, so that trimming,       *)
(* regular-expression replacement and path.parse are computed.            *)
(***************************************************************************)
EXTENDS Integers, Sequences, FiniteSets, TLC

VARIABLES
  settings,     \* this.settings (main.ts:184): the in-memory configuration
  saved,        \* what saveData last persisted (data.json)
  rendered,     \* the setting tab has been rendered by display()
  options,      \* the options both dropdowns were filled with by display()
  destValue,    \* value shown by the destination dropdown (main.ts:100)
  delValue,     \* value shown by the delete dropdown (main.ts:137)
  newPath,      \* the closure variable of display() (main.ts:108)
  errorModal,   \* an ErrorModal is open (main.ts:57-74)
  pushes,       \* the pushFile invocations in flight (main.ts:263-279)
  lastWrite,    \* the most recent successful FileService.writeFile call
  now           \* the wall clock read by new Date() (main.ts:283)

vars == <<settings, saved, rendered, options, destValue, delValue, newPath,
          errorModal, pushes, lastWrite, now>>

-----------------------------------------------------------------------------
(* Bounds *)

\* pushFile invocations that may be suspended at their await at one time
MaxPushes == 1

\* longest source file name drawn in SpecName
MaxNameLen == 5

-----------------------------------------------------------------------------
(* Strings *)

Whitespace == {" ", "\t"}

IsWs(c) == c \in Whitespace

Range(s) == {s[i] : i \in 1..Len(s)}

\* projectFolders[0] of an empty array, and a dropdown set to it
Undefined == <<"undefined">>

\* String.prototype.trim
RECURSIVE trimStart(_)
trimStart(s) ==
  IF s = <<>> THEN <<>>
  ELSE IF IsWs(Head(s)) THEN trimStart(Tail(s)) ELSE s

RECURSIVE trimEnd(_)
trimEnd(s) ==
  IF s = <<>> THEN <<>>
  ELSE IF IsWs(s[Len(s)]) THEN trimEnd(SubSeq(s, 1, Len(s) - 1)) ELSE s

trim(s) == trimEnd(trimStart(s))

\* s.replace(/\s+/g, rep): a left-to-right scan; inRun says that the previous
\* character belonged to the match being consumed
RECURSIVE scanWhitespaceRuns(_, _, _)
scanWhitespaceRuns(s, rep, inRun) ==
  IF s = <<>> THEN <<>>
  ELSE IF IsWs(Head(s))
       THEN (IF inRun THEN <<>> ELSE rep) \o scanWhitespaceRuns(Tail(s), rep, TRUE)
       ELSE <<Head(s)>> \o scanWhitespaceRuns(Tail(s), rep, FALSE)

\* faulty variant, /\s/g: one replacement for each whitespace character
replaceEachWhitespace(s, rep) ==
  LET RECURSIVE each(_)
      each(t) == IF t = <<>> THEN <<>>
                 ELSE (IF IsWs(Head(t)) THEN rep ELSE <<Head(t)>>) \o each(Tail(t))
  IN each(s)

replaceWhitespaceRuns(s, rep) == scanWhitespaceRuns(s, rep, FALSE)

\* s.replace(/[#?]/g, '')
RECURSIVE removeDisallowed(_)
removeDisallowed(s) ==
  IF s = <<>> THEN <<>>
  ELSE (IF Head(s) \in {"#", "?"} THEN <<>> ELSE <<Head(s)>>)
         \o removeDisallowed(Tail(s))

-----------------------------------------------------------------------------
(* Settings *)

DEFAULT_SETTINGS ==
  [projectFolders |-> << <<>> >>,
   showHiddenFolders |-> FALSE,
   convertToJekyllFormat |-> FALSE]

\* loadData() of a fresh installation
NoData == [none |-> TRUE]

\* { ...DEFAULT_SETTINGS, ...(await this.loadData()) }
loadSettings(data) ==
  [k \in DOMAIN DEFAULT_SETTINGS |->
     IF k \in DOMAIN data THEN data[k] ELSE DEFAULT_SETTINGS[k]]

\* projectFolders[0]
first(folders) == IF Len(folders) = 0 THEN Undefined ELSE folders[1]

\* projectFolders[0] = value
setFirst(folders, value) ==
  IF Len(folders) = 0 THEN <<value>> ELSE [folders EXCEPT ![1] = value]

\* Array.prototype.indexOf, 0-based, -1 when absent
indexOf(folders, value) ==
  IF \E i \in 1..Len(folders) : folders[i] = value
  THEN (CHOOSE i \in 1..Len(folders) :
          /\ folders[i] = value
          /\ \A j \in 1..(i - 1) : folders[j] # value) - 1
  ELSE -1

\* Array.prototype.splice(index, 1), index 0-based
splice(folders, index) ==
  SubSeq(folders, 1, index) \o SubSeq(folders, index + 2, Len(folders))

\* the text field's onChange: value.trim().replace(/\s+/g, ' ')
normalizeNewPath(value) == replaceWhitespaceRuns(trim(value), <<" ">>)

\* what the user may type into the new-path field
TextInputs ==
  { <<>>,
    <<" ">>,
    <<"/", "a">>,
    <<" ", "/", "a", "\t">>,
    <<"/", "a", " ", "\t", "b">> }

\* directories that exist on the local filesystem
ExistingDirs == { <<"/", "a">> }

-----------------------------------------------------------------------------
(* Paths, files and dates *)

\* process.cwd(), which path.resolve prepends to a relative result
Cwd == <<".">>

NoPath == [dir |-> <<>>, name |-> <<>>]

\* path.resolve(folder, name) for an absolute or empty folder and a name
\* without separators: an empty segment is skipped, so the result is
\* relative to the working directory
resolve(folder, name) ==
  [dir |-> IF folder = <<>> THEN Cwd ELSE folder, name |-> name]

\* FileService.exists: fs.existsSync is false for "" and for undefined
exists(filePath) == filePath \in ExistingDirs

\* view.file of a view without a file
NoFile == <<"null">>

\* the document the commands are invoked on in Spec
OpenFiles ==
  { <<"a", " ", "b", ".", "m", "d">> }

\* what vault.read may return
Contents == {"hello", "bye"}

NameAlphabet == {"a", "m", "#", "?", " ", "\t", "."}

\* every non-empty file name of at most MaxNameLen characters
Names == UNION { [1..n -> NameAlphabet] : n \in 1..MaxNameLen }

Dates ==
  { [year |-> 2024, month |-> 1, day |-> 5],
    [year |-> 987, month |-> 12, day |-> 31] }

Later(d, e) ==
  \/ d.year > e.year
  \/ d.year = e.year /\ d.month > e.month
  \/ d.year = e.year /\ d.month = e.month /\ d.day > e.day

Digits == <<"0", "1", "2", "3", "4", "5", "6", "7", "8", "9">>

RECURSIVE padStart(_, _)
padStart(n, width) ==
  IF width = 0 THEN <<>>
  ELSE padStart(n \div 10, width - 1) \o <<Digits[(n % 10) + 1]>>

\* new Date().toISOString().split('T')[0] for a year in 0..9999
isoDate(d) ==
  padStart(d.year, 4) \o <<"-">> \o padStart(d.month, 2) \o <<"-">>
    \o padStart(d.day, 2)

\* path.parse(fileName): the backwards scan for the last dot, on a name
\* without separators.  preDotState: 0 nothing seen left of the dot,
\* 1 another dot seen, -1 a non-dot character seen.
RECURSIVE scanDots(_, _, _, _)
scanDots(s, i, startDot, preDotState) ==
  IF i = 0 THEN [startDot |-> startDot, preDotState |-> preDotState]
  ELSE IF s[i] = "."
       THEN IF startDot = -1 THEN scanDots(s, i - 1, i, preDotState)
            ELSE scanDots(s, i - 1, startDot, 1)
       ELSE IF startDot # -1 THEN scanDots(s, i - 1, startDot, -1)
            ELSE scanDots(s, i - 1, startDot, preDotState)

\* path.parse(fileName).name
parseName(fileName) ==
  LET r == scanDots(fileName, Len(fileName), -1, 0)
  IN IF \/ r.startDot = -1
        \/ r.preDotState = 0
        \/ (r.preDotState = 1 /\ r.startDot = Len(fileName) /\ r.startDot = 2)
     THEN fileName
     ELSE SubSeq(fileName, 1, r.startDot - 1)

convertToJekyllFileName(fileName, date) ==
  LET nameWithoutExtension == parseName(fileName)
      sanitizedTitle ==
        replaceWhitespaceRuns(removeDisallowed(nameWithoutExtension), <<"-">>)
  IN isoDate(date) \o <<"-">> \o sanitizedTitle \o <<".", "m", "d">>

-----------------------------------------------------------------------------
(* The setting tab *)

\* the continuation of a pushFile is a microtask: it runs before any other
\* handler once vault.read has settled
Settled == {p \in 1..MaxPushes : pushes[p].pc \in {"resolved", "rejected"}}

\* saveSettings: saveData(this.settings)
saveSettings(s) == saved' = s

\* display(): both dropdowns are filled from projectFolders and set to
\* projectFolders[0]; newPath is a fresh closure variable
displayed(s) ==
  /\ rendered' = TRUE
  /\ options' = s.projectFolders
  /\ destValue' = first(s.projectFolders)
  /\ delValue' = first(s.projectFolders)
  /\ newPath' = <<>>

\* the host renders the tab
display ==
  /\ Settled = {}
  /\ displayed(settings)
  /\ UNCHANGED <<settings, saved, errorModal, pushes, lastWrite, now>>

\* destination dropdown onChange (main.ts:101-104)
SelectDestination(value) ==
  /\ Settled = {}
  /\ rendered
  /\ value \in Range(options)
  /\ value # destValue
  /\ settings' = [settings EXCEPT
                    !.projectFolders = setFirst(settings.projectFolders, value)]
  /\ saveSettings(settings')
  /\ destValue' = value
  /\ UNCHANGED <<rendered, options, delValue, newPath, errorModal, pushes,
                 lastWrite, now>>

\* new-path text field onChange (main.ts:114-116)
TypeNewPath(value) ==
  /\ Settled = {}
  /\ rendered
  /\ newPath' = normalizeNewPath(value)
  /\ UNCHANGED <<settings, saved, rendered, options, destValue, delValue,
                 errorModal, pushes, lastWrite, now>>

\* add button onClick (main.ts:120-126)
ClickAdd ==
  /\ Settled = {}
  /\ rendered
  /\ IF newPath # <<>> /\ newPath \notin Range(settings.projectFolders)
     THEN /\ settings' = [settings EXCEPT
                            !.projectFolders = Append(settings.projectFolders, newPath)]
          /\ saveSettings(settings')
          /\ displayed(settings')
     ELSE UNCHANGED <<settings, saved, rendered, options, destValue, delValue,
                      newPath>>
  /\ UNCHANGED <<errorModal, pushes, lastWrite, now>>

\* delete dropdown onChange (main.ts:138-140): no saveSettings
SelectDelete(value) ==
  /\ Settled = {}
  /\ rendered
  /\ value \in Range(options)
  /\ value # delValue
  /\ settings' = [settings EXCEPT
                    !.projectFolders = setFirst(settings.projectFolders, value)]
  /\ delValue' = value
  /\ UNCHANGED <<saved, rendered, options, destValue, newPath, errorModal,
                 pushes, lastWrite, now>>

\* delete button onClick (main.ts:144-151)
ClickDelete ==
  /\ Settled = {}
  /\ rendered
  /\ LET index == indexOf(settings.projectFolders, first(settings.projectFolders))
     IN IF index > -1
        THEN /\ settings' = [settings EXCEPT
                               !.projectFolders = splice(settings.projectFolders, index)]
             /\ saveSettings(settings')
             /\ displayed(settings')
        ELSE UNCHANGED <<settings, saved, rendered, options, destValue,
                         delValue, newPath>>
  /\ UNCHANGED <<errorModal, pushes, lastWrite, now>>

\* hidden-folder toggle onChange (main.ts:161-164)
ToggleShowHiddenFolders ==
  /\ Settled = {}
  /\ rendered
  /\ settings' = [settings EXCEPT !.showHiddenFolders = ~settings.showHiddenFolders]
  /\ saveSettings(settings')
  /\ UNCHANGED <<rendered, options, destValue, delValue, newPath, errorModal,
                 pushes, lastWrite, now>>

\* Jekyll toggle onChange (main.ts:174-177)
ToggleConvertToJekyllFormat ==
  /\ Settled = {}
  /\ rendered
  /\ settings' = [settings EXCEPT
                    !.convertToJekyllFormat = ~settings.convertToJekyllFormat]
  /\ saveSettings(settings')
  /\ UNCHANGED <<rendered, options, destValue, delValue, newPath, errorModal,
                 pushes, lastWrite, now>>

-----------------------------------------------------------------------------
(* Commands and pushFile *)

IdlePush ==
  [pc |-> "idle", file |-> NoFile, targetPath |-> NoPath,
   startFlag |-> FALSE, fileContent |-> ""]

\* faulty variant: the existence check is skipped
alwaysValid(s) == TRUE

\* isProjectPathValid's result (main.ts:253-260); on FALSE the ErrorModal
\* is opened, which the calling actions below do
isProjectPathValid(s) == exists(first(s.projectFolders))

FreeSlot(p) ==
  /\ pushes[p].pc = "idle"
  /\ \A q \in 1..(p - 1) : pushes[q].pc # "idle"

\* pushFile up to its await (main.ts:263-266).  startFlag is a history
\* field: the Jekyll flag in force when the push was invoked.
startPush(file, targetPath) ==
  \E p \in 1..MaxPushes :
    /\ FreeSlot(p)
    /\ pushes' = [pushes EXCEPT ![p] =
                    [pc |-> "reading", file |-> file, targetPath |-> targetPath,
                     startFlag |-> settings.convertToJekyllFormat,
                     fileContent |-> ""]]

\* validate-path editorCallback (main.ts:216-219)
ValidatePath ==
  /\ Settled = {}
  /\ errorModal' = IF isProjectPathValid(settings) THEN errorModal ELSE TRUE
  /\ UNCHANGED <<settings, saved, rendered, options, destValue, delValue,
                 newPath, pushes, lastWrite, now>>

\* push-md editorCallback (main.ts:225-232)
PushMd(file) ==
  /\ Settled = {}
  /\ IF ~isProjectPathValid(settings)
     THEN errorModal' = TRUE /\ UNCHANGED pushes
     ELSE /\ UNCHANGED errorModal
          /\ IF file # NoFile
             THEN startPush(file, resolve(first(settings.projectFolders), file))
             ELSE UNCHANGED pushes
  /\ UNCHANGED <<settings, saved, rendered, options, destValue, delValue,
                 newPath, lastWrite, now>>

\* file-menu item onClick (main.ts:241-245)
FileMenuPush(file) ==
  /\ Settled = {}
  /\ IF ~isProjectPathValid(settings)
     THEN errorModal' = TRUE /\ UNCHANGED pushes
     ELSE /\ UNCHANGED errorModal
          /\ startPush(file, resolve(first(settings.projectFolders), file))
  /\ UNCHANGED <<settings, saved, rendered, options, destValue, delValue,
                 newPath, lastWrite, now>>

\* ErrorModal dismissed (main.ts:70-73)
CloseModal ==
  /\ Settled = {}
  /\ errorModal
  /\ errorModal' = FALSE
  /\ UNCHANGED <<settings, saved, rendered, options, destValue, delValue,
                 newPath, pushes, lastWrite, now>>

\* vault.read fulfils (main.ts:266)
ReadResolve(p, content) ==
  /\ Settled = {}
  /\ pushes[p].pc = "reading"
  /\ pushes' = [pushes EXCEPT ![p].pc = "resolved", ![p].fileContent = content]
  /\ UNCHANGED <<settings, saved, rendered, options, destValue, delValue,
                 newPath, errorModal, lastWrite, now>>

\* vault.read rejects (main.ts:266, 276)
ReadReject(p) ==
  /\ Settled = {}
  /\ pushes[p].pc = "reading"
  /\ pushes' = [pushes EXCEPT ![p].pc = "rejected"]
  /\ UNCHANGED <<settings, saved, rendered, options, destValue, delValue,
                 newPath, errorModal, lastWrite, now>>

\* faulty variant: the name is converted whatever the flag says
alwaysJekyllTarget(push, s, date) ==
  IF first(s.projectFolders) = Undefined THEN NoPath
  ELSE resolve(first(s.projectFolders),
               convertToJekyllFileName(push.file, date))

\* the target pushFile writes to (main.ts:269-272), NoPath when path.resolve
\* throws on an undefined folder
pushTarget(push, s, date) ==
  IF s.convertToJekyllFormat
  THEN IF first(s.projectFolders) = Undefined THEN NoPath
       ELSE resolve(first(s.projectFolders),
                    convertToJekyllFileName(push.file, date))
  ELSE push.targetPath

\* FileService.writeFile can succeed only into a directory that exists
writable(targetPath) == targetPath.dir \in ExistingDirs \cup {Cwd}

\* faulty variant: writeFile is reached although vault.read threw
writesAnyway(push, s, date) ==
  [path |-> pushTarget(push, s, date), data |-> push.fileContent]

NoWrite == [path |-> NoPath, data |-> ""]

\* what pushFile hands to writeFile after its await (main.ts:266-274):
\* nothing when vault.read or path.resolve threw
writeRequest(push, s, date) ==
  IF push.pc = "resolved" /\ pushTarget(push, s, date) # NoPath
  THEN [path |-> pushTarget(push, s, date), data |-> push.fileContent]
  ELSE NoWrite

\* pushFile after its await (main.ts:266-278)
pushFileResume(p) ==
  /\ p \in Settled
  /\ LET w == writeRequest(pushes[p], settings, now)
     IN \/ /\ w # NoWrite
           /\ writable(w.path)
           /\ lastWrite' = w
        \/ /\ UNCHANGED lastWrite  \* nothing to write, or writeFileSync threw
  /\ pushes' = [pushes EXCEPT ![p] = IdlePush]
  /\ UNCHANGED <<settings, saved, rendered, options, destValue, delValue,
                 newPath, errorModal, now>>

\* the date changes
Tick ==
  /\ Settled = {}
  /\ \E d \in Dates : Later(d, now) /\ now' = d
  /\ UNCHANGED <<settings, saved, rendered, options, destValue, delValue,
                 newPath, errorModal, pushes, lastWrite>>

-----------------------------------------------------------------------------
(* Specifications *)

\* after onload of a fresh installation
Init ==
  /\ settings = loadSettings(NoData)
  /\ saved = NoData
  /\ rendered = FALSE
  /\ options = <<>>
  /\ destValue = Undefined
  /\ delValue = Undefined
  /\ newPath = <<>>
  /\ errorModal = FALSE
  /\ pushes = [p \in 1..MaxPushes |-> IdlePush]
  /\ lastWrite = NoWrite
  /\ now = CHOOSE d \in Dates : \A e \in Dates : ~Later(d, e)

Next ==
  \/ display
  \/ \E value \in Range(options) : SelectDestination(value)
  \/ \E value \in TextInputs : TypeNewPath(value)
  \/ ClickAdd
  \/ \E value \in Range(options) : SelectDelete(value)
  \/ ClickDelete
  \/ ToggleShowHiddenFolders
  \/ ToggleConvertToJekyllFormat
  \/ ValidatePath
  \/ \E file \in OpenFiles \cup {NoFile} : PushMd(file)
  \/ \E file \in OpenFiles : FileMenuPush(file)
  \/ CloseModal
  \/ \E p \in 1..MaxPushes, content \in Contents : ReadResolve(p, content)
  \/ \E p \in 1..MaxPushes : ReadReject(p)
  \/ \E p \in 1..MaxPushes : pushFileResume(p)

Spec == Init /\ [][Next]_vars

\* a configured installation: one existing destination, either mode, any date
InitName ==
  /\ settings \in { [projectFolders |-> << <<"/", "a">> >>,
                     showHiddenFolders |-> FALSE,
                     convertToJekyllFormat |-> flag] : flag \in BOOLEAN }
  /\ saved = settings
  /\ rendered = FALSE
  /\ options = <<>>
  /\ destValue = Undefined
  /\ delValue = Undefined
  /\ newPath = <<>>
  /\ errorModal = FALSE
  /\ pushes = [p \in 1..MaxPushes |-> IdlePush]
  /\ lastWrite = NoWrite
  /\ now \in Dates

\* no push is in flight and none has written its file yet
Fresh == lastWrite = NoWrite /\ \A p \in 1..MaxPushes : pushes[p].pc = "idle"

\* pushes of every name, one at a time, until one has written its file
NextName ==
  \/ Fresh /\ \E file \in Names : PushMd(file)
  \/ Fresh /\ \E file \in Names : FileMenuPush(file)
  \/ \E p \in 1..MaxPushes, content \in Contents : ReadResolve(p, content)
  \/ \E p \in 1..MaxPushes : ReadReject(p)
  \/ \E p \in 1..MaxPushes : pushFileResume(p)
  \/ Tick

SpecName == InitName /\ [][NextName]_vars

-----------------------------------------------------------------------------
(* Properties *)

NoDuplicates(folders) ==
  \A i, j \in 1..Len(folders) : folders[i] = folders[j] => i = j

\* the list without every occurrence of value, the others in their order
Without(folders, value) ==
  LET Other(x) == x # value IN SelectSeq(folders, Other)

\* a step in which pushFile p hands a file to writeFile that is written
Writes(p) == p \in Settled /\ lastWrite' # lastWrite

\* C1: in every reachable state the destination directory list
\* projectFolders is non-empty.
C1_NeverEmpty == Len(settings.projectFolders) > 0

\* C2: the directory a push writes into is the directory it validated when
\* it was invoked, and it converts the name exactly when the Jekyll flag was
\* set when it was invoked (no configuration change takes effect in between).
C2_WriteUsesConfigurationAtStart ==
  [][\A p \in 1..MaxPushes :
       Writes(p) =>
         /\ lastWrite'.path.dir = pushes[p].targetPath.dir
         /\ (lastWrite'.path.name # pushes[p].file) = pushes[p].startFlag]_vars

\* C3: a push-md command or file-menu push invoked while projectFolders[0]
\* does not exist (the placeholder and an absent index 0 included) starts no
\* pushFile, so nothing is read or written, and opens the ErrorModal; and
\* every pushFile that starts was invoked on an existing projectFolders[0].
C3_InvalidPathAbortsPush ==
  [][/\ \A file \in OpenFiles \cup {NoFile} :
          ((PushMd(file) \/ FileMenuPush(file))
             /\ ~exists(first(settings.projectFolders)))
          => (errorModal' /\ pushes' = pushes /\ lastWrite' = lastWrite)
     /\ \A p \in 1..MaxPushes :
          (pushes[p].pc = "idle" /\ pushes'[p].pc # "idle")
          => (/\ exists(first(settings.projectFolders))
              /\ pushes'[p].targetPath.dir = first(settings.projectFolders))]_vars

C3_Witness ==
  /\ errorModal
  /\ settings.projectFolders = <<>>
  /\ lastWrite = NoWrite
  /\ \A p \in 1..MaxPushes : pushes[p].pc = "idle"

\* C4: projectFolders changes only in a step of the add button or of the
\* delete button.
C4_OnlyAddDeleteChangeList ==
  [][settings'.projectFolders # settings.projectFolders
       => (ClickAdd \/ ClickDelete)]_vars

\* C5: what is persisted (the defaults while nothing has been saved) equals
\* the in-memory settings after every configuration action.
C5_PersistedEqualsSettings == loadSettings(saved) = settings

\* C6: a file is written only by a pushFile whose vault.read has fulfilled,
\* with the content that read returned; a pushFile whose read rejected
\* writes nothing, and a pushFile still reading writes nothing.
C6_WriteAfterSuccessfulRead ==
  [][/\ lastWrite' # lastWrite
          => \E p \in 1..MaxPushes :
               /\ pushes[p].pc = "resolved"
               /\ pushes'[p].pc = "idle"
               /\ lastWrite'.data = pushes[p].fileContent
               /\ lastWrite'.data \in Contents
     /\ \A p \in 1..MaxPushes :
          pushes[p].pc = "rejected" => lastWrite' = lastWrite
     /\ \A p \in 1..MaxPushes :
          pushes[p].pc = "resolved" =>
            (pushes'[p].pc = "idle" /\ pushes[p].fileContent \in Contents)]_vars

C6_Witness ==
  /\ lastWrite # NoWrite
  /\ \E p \in 1..MaxPushes : pushes[p].pc = "rejected"

\* the name without its extension: the part before the last dot, unless
\* that dot is the first character or the name is ".."
Stem(name) ==
  LET dots == {i \in 1..Len(name) : name[i] = "."}
      last == CHOOSE i \in dots : \A j \in dots : j <= i
  IN IF dots = {} \/ last = 1 \/ name = <<".", ".">> THEN name
     ELSE SubSeq(name, 1, last - 1)

\* title with each maximal whitespace run turned into one hyphen: a
\* character is kept unless it is whitespace preceded by whitespace
OneHyphenPerRun(title) ==
  LET Starts(i) == ~IsWs(title[i]) \/ i = 1 \/ ~IsWs(title[i - 1])
      kept == SelectSeq([i \in 1..Len(title) |-> i], Starts)
  IN [k \in 1..Len(kept) |->
        IF IsWs(title[kept[k]]) THEN "-" ELSE title[kept[k]]]

ExpectedTitle(name) ==
  LET Allowed(c) == c \notin {"#", "?"}
  IN OneHyphenPerRun(SelectSeq(Stem(name), Allowed))

EndsWithMd(name) ==
  Len(name) >= 3 /\ SubSeq(name, Len(name) - 2, Len(name)) = <<".", "m", "d">>

\* C7: in dated mode the file written is named date-T.md, T being the name
\* without its extension with every '#' and '?' removed and then every
\* maximal whitespace run replaced by one hyphen; it ends in ".md" whatever
\* the source extension, and an empty T gives date-.md.
C7_JekyllFileName ==
  [][\A p \in 1..MaxPushes :
       (Writes(p) /\ settings.convertToJekyllFormat) =>
         LET T == ExpectedTitle(pushes[p].file)
             written == lastWrite'.path.name
         IN /\ written = isoDate(now) \o <<"-">> \o T \o <<".", "m", "d">>
            /\ EndsWithMd(written)
            /\ T = <<>> => written = isoDate(now) \o <<"-", ".", "m", "d">>
            /\ \A i \in 1..Len(T) : T[i] \notin {"#", "?", " ", "\t"}]_vars

C7_Witness ==
  /\ settings.convertToJekyllFormat
  /\ lastWrite.path.name =
       <<"0", "9", "8", "7", "-", "1", "2", "-", "3", "1", "-",
         "a", "-", "m", ".", "m", "d">>

\* C8: with dated mode off the file is written to the destination directory
\* joined with the source document's name, character for character.
C8_PlainNameUnchanged ==
  [][\A p \in 1..MaxPushes :
       (Writes(p) /\ ~settings.convertToJekyllFormat) =>
         /\ lastWrite'.path.name = pushes[p].file
         /\ lastWrite'.path.dir = first(settings.projectFolders)]_vars

C8_Witness ==
  /\ ~settings.convertToJekyllFormat
  /\ lastWrite.path = [dir |-> <<"/", "a">>, name |-> <<"#", " ", "?", ".">>]

\* C9: pressing delete with v shown in the delete dropdown (the destination
\* dropdown untouched since the list was displayed) leaves the displayed
\* list without v: v is gone and the other entries remain, in order.
C9_DeleteRemovesSelected ==
  [][(ClickDelete /\ rendered /\ options # <<>>
        /\ destValue = first(options))
       => settings'.projectFolders = Without(options, delValue)]_vars

\* C10: projectFolders never holds the same path at two positions.
C10_NoDuplicatePaths == NoDuplicates(settings.projectFolders)

====
